---------------------------- MODULE Spec2Model ----------------------------
(***************************************************************************)
(* Model of the emoji font-subsetting service:                             *)
(*   - getGlyphIdsForEmoji (v2 route and worker script): code-point         *)
(*     decoding and glyph resolution, as pure operators;                    *)
(*   - the v2 route handler (/api/convert-emoji-v2) with its LRU+TTL        *)
(*     result cache;                                                        *)
(*   - the worker route handler (/api/convert-emoji) with its plain         *)
(*     object cache, and the worker process it spawns;                      *)
(*   - createEmojiSubset of the v2 route and createEmojiPng of the PNG      *)
(*     route, by their awaits;                                              *)
(*   - the client page (src/app/page.tsx): uploads, conversion batches,     *)
(*     resets and downloads.                                                *)
(* Strings are sequences of UTF-16 code units (JavaScript strings).         *)
(***************************************************************************)
EXTENDS Integers, Sequences, FiniteSets, TLC

VARIABLES
    gEmoji,     \* getGlyphIdsForEmoji: the `emoji` argument
    gFont,      \* getGlyphIdsForEmoji: the `font` argument
    gPc,        \* "ready" | "done"
    gVariant,   \* which copy of the function ran: "none" | "v2" | "worker"
    gResult,    \* what the call returned (and what it did on the way)
    now,        \* the clock (Date.now(), milliseconds)
    cache,      \* v2 route: emojiSubsetCache, a sequence of entries, most recently used first
    reqs,       \* v2 route: one record per request slot
    nReq,       \* v2 route: number of requests received so far
    recent,     \* v2 route: the keys served from or stored into the cache, the latest first
    overlap,    \* v2 route: the pairs of slots whose requests were in flight together
    sent,       \* v2 route clients: how many different emoji they have sent so far
    wcache,     \* worker route: emojiSubsetCache, a set of [key, value, storedAt]
    wreqs,      \* worker route: one record per request slot
    wnReq,      \* worker route: number of requests received so far
    runs,       \* createEmojiSubset: one record per invocation slot
    temp,       \* the files of the `temp` directory, a set of [path, content]
    wawoff2,    \* the wawoff2 build in use: "sound" | "unsound"
    png,        \* PNG route: one record per call of createEmojiPng
    svgItems,   \* client page: the uploaded items, in upload order
    isConverting,        \* client page: a conversion batch is running
    conversionType,      \* client page: "foreignObject" | "png"
    conversionProgress,  \* client page: percentage shown on the button
    conversionCache,     \* client page: results by cache key, a set of [key, value]
    batch,      \* client page: what the running convertToVectorSvg holds in its closure
    finished,   \* client page: ids of the items of the batches finished since the last reset
    download,   \* client page: the files the last step handed to the browser for download
    nDrop       \* client page: number of items uploaded so far

gvars == <<gEmoji, gFont, gPc, gVariant, gResult>>
v2vars == <<cache, reqs, nReq, recent, overlap, sent>>
wvars == <<wcache, wreqs, wnReq>>
svars == <<runs, temp>>
pvars == <<png>>
cvars == <<svgItems, isConverting, conversionType, conversionProgress, conversionCache, batch, finished, download, nDrop>>
ovars == <<wawoff2, pvars, cvars>>
vars == <<gEmoji, gFont, gPc, gVariant, gResult, now, cache, reqs, nReq, recent, overlap, sent, wcache, wreqs, wnReq, runs, temp, wawoff2, png, svgItems, isConverting, conversionType, conversionProgress, conversionCache, batch, finished, download, nDrop>>

---------------------------------------------------------------------------
(* Bounds of the model *)

\* longest emoji string given to getGlyphIdsForEmoji
MaxLen == 3

\* requests a route receives in one run
MaxRequests == 3

\* requests of the capacity runs (more than the cache holds)
MaxLruRequests == 7

\* how far the clock runs: one cache lifetime and MaxMs milliseconds
MaxMs == 1

\* files uploaded to the client page in one run
MaxDrops == 2

---------------------------------------------------------------------------
(* UTF-16 strings *)

\* code units the strings are made of: U+0000, U+263A, U+200D (ZWJ),
\* 0xD83D (a high surrogate), 0xDE00 (a low surrogate)
Units == {0, 9786, 8205, 55357, 56832}

IsHigh(u) == u >= 55296 /\ u <= 56319
IsLow(u) == u >= 56320 /\ u <= 57343

RECURSIVE StringsUpTo(_)
StringsUpTo(n) ==
    IF n = 0 THEN {<<>>}
    ELSE LET shorter == StringsUpTo(n - 1)
         IN  shorter \cup {Append(s, u) : s \in {t \in shorter : Len(t) = n - 1}, u \in Units}

\* a string is well formed when every surrogate is half of a pair
WellFormed(s) ==
    \A i \in 1..Len(s) :
        /\ IsHigh(s[i]) => (i < Len(s) /\ IsLow(s[i + 1]))
        /\ IsLow(s[i]) => (i > 1 /\ IsHigh(s[i - 1]))

\* String.prototype.codePointAt(i - 1): the pair's scalar value when a high
\* surrogate is followed by a low one, the code unit itself otherwise
CodePointAt(s, i) ==
    IF IsHigh(s[i]) /\ i < Len(s) /\ IsLow(s[i + 1])
    THEN (s[i] - 55296) * 1024 + (s[i + 1] - 56320) + 65536
    ELSE s[i]

\* String.fromCodePoint(...cps): the UTF-16 encoding of a list of code points
RECURSIVE FromCodePoint(_)
FromCodePoint(cps) ==
    IF cps = <<>> THEN <<>>
    ELSE LET cp == Head(cps)
             units == IF cp > 65535
                      THEN <<55296 + ((cp - 65536) \div 1024), 56320 + ((cp - 65536) % 1024)>>
                      ELSE <<cp>>
         IN  units \o FromCodePoint(Tail(cps))

---------------------------------------------------------------------------
(* getGlyphIdsForEmoji: code-point extraction *)

\* the loop of the worker script: every code point is pushed
RECURSIVE WorkerCodePointsFrom(_, _, _)
WorkerCodePointsFrom(emoji, i, codePoints) ==
    IF i > Len(emoji) THEN codePoints
    ELSE LET cp == CodePointAt(emoji, i)
         IN  WorkerCodePointsFrom(emoji, IF cp > 65535 THEN i + 2 ELSE i + 1,
                                  Append(codePoints, cp))

\* the loop of the v2 route: `if (cp)` guards the push and the skip
RECURSIVE V2CodePointsFrom(_, _, _)
V2CodePointsFrom(emoji, i, codePoints) ==
    IF i > Len(emoji) THEN codePoints
    ELSE LET cp == CodePointAt(emoji, i)
         IN  IF cp # 0
             THEN V2CodePointsFrom(emoji, IF cp > 65535 THEN i + 2 ELSE i + 1,
                                   Append(codePoints, cp))
             ELSE V2CodePointsFrom(emoji, i + 1, codePoints)

ExtractCodePoints(variant, emoji) ==
    IF variant = "v2" THEN V2CodePointsFrom(emoji, 1, <<>>)
    ELSE WorkerCodePointsFrom(emoji, 1, <<>>)

---------------------------------------------------------------------------
(* The font, as the resolver sees it *)

\* A font is [cmap, noId, ligatures, layoutThrows, components]:
\*   cmap         set of <<code point, glyph id>>
\*   noId         code points whose glyph object carries no id
\*   ligatures    set of <<code point sequence, glyph id>> (sequence substitution)
\*   layoutThrows whether font.layout throws
\*   components   set of <<composite glyph id, component glyph id>>
FontFull ==
    [cmap |-> {<<0, 1>>, <<9786, 3>>, <<128512, 5>>},
     noId |-> {},
     ligatures |-> {<<(<<128512, 8205, 9786>>), 9>>},
     layoutThrows |-> FALSE,
     components |-> {<<9, 5>>, <<9, 3>>}]

\* no glyph for any single code point, one substitution rule for a pair
FontLigatureOnly ==
    [cmap |-> {},
     noId |-> {},
     ligatures |-> {<<(<<9786, 9786>>), 4>>, <<(<<128512, 9786>>), 6>>},
     layoutThrows |-> FALSE,
     components |-> {<<4, 2>>, <<2, 7>>}]

\* some lookups give objects without id, and shaping fails
FontBroken ==
    [cmap |-> {<<128512, 5>>},
     noId |-> {9786},
     ligatures |-> {},
     layoutThrows |-> TRUE,
     components |-> {}]

Fonts == {FontFull, FontLigatureOnly, FontBroken}

HasGlyph(font, cp) == \E p \in font.cmap : p[1] = cp

\* font.glyphForCodePoint(cp): a glyph with an id, a glyph without id, or
\* an exception when reading .id of nothing
GlyphForCodePoint(font, cp) ==
    IF HasGlyph(font, cp)
    THEN [kind |-> "glyph", id |-> (CHOOSE p \in font.cmap : p[1] = cp)[2]]
    ELSE IF cp \in font.noId THEN [kind |-> "noid", id |-> 0 - 1]
    ELSE [kind |-> "throw", id |-> 0 - 1]

LigatureAt(font, cps, i) ==
    {l \in font.ligatures :
        /\ i + Len(l[1]) - 1 <= Len(cps)
        /\ SubSeq(cps, i, i + Len(l[1]) - 1) = l[1]}

\* the glyph run of font.layout(str): substitution rules first, then the
\* cmap, .notdef (glyph 0) for what neither covers
RECURSIVE ShapeFrom(_, _, _)
ShapeFrom(font, cps, i) ==
    IF i > Len(cps) THEN <<>>
    ELSE IF LigatureAt(font, cps, i) # {}
    THEN LET l == CHOOSE x \in LigatureAt(font, cps, i) :
                      \A y \in LigatureAt(font, cps, i) : Len(y[1]) <= Len(x[1])
         IN  <<l[2]>> \o ShapeFrom(font, cps, i + Len(l[1]))
    ELSE IF HasGlyph(font, cps[i])
    THEN <<GlyphForCodePoint(font, cps[i]).id>> \o ShapeFrom(font, cps, i + 1)
    ELSE <<0>> \o ShapeFrom(font, cps, i + 1)

\* font.layout(str), str given by its code units
Layout(font, str) ==
    IF font.layoutThrows THEN [kind |-> "throw", glyphs |-> <<>>]
    ELSE [kind |-> "run", glyphs |-> ShapeFrom(font, WorkerCodePointsFrom(str, 1, <<>>), 1)]

---------------------------------------------------------------------------
(* getGlyphIdsForEmoji: glyph resolution *)

Includes(list, x) == \E k \in 1..Len(list) : list[k] = x

\* DirectLookups with the catch block leaving the loop at the first failed lookup
RECURSIVE DirectLookupsAborting(_, _, _, _)
DirectLookupsAborting(font, codePoints, k, acc) ==
    IF k > Len(codePoints) THEN acc
    ELSE LET cp == codePoints[k]
             g == GlyphForCodePoint(font, cp)
             looked == Append(acc.looked, cp)
         IN  IF g.kind = "throw"
             THEN [acc EXCEPT !.looked = looked, !.warned = Append(acc.warned, cp)]
             ELSE IF g.kind = "glyph" /\ ~Includes(acc.glyphIds, g.id)
             THEN DirectLookupsAborting(font, codePoints, k + 1,
                                        [acc EXCEPT !.looked = looked,
                                                    !.glyphIds = Append(acc.glyphIds, g.id)])
             ELSE DirectLookupsAborting(font, codePoints, k + 1,
                                        [acc EXCEPT !.looked = looked])

\* one pass of `for (const cp of codePoints)`; acc is
\* [glyphIds, looked, warned]: the list built so far, the code points handed
\* to glyphForCodePoint, the code points the catch block warned about
RECURSIVE DirectLookups(_, _, _, _)
DirectLookups(font, codePoints, k, acc) ==
    IF k > Len(codePoints) THEN acc
    ELSE LET cp == codePoints[k]
             g == GlyphForCodePoint(font, cp)
             looked == Append(acc.looked, cp)
         IN  IF g.kind = "throw"
             THEN DirectLookups(font, codePoints, k + 1,
                                [acc EXCEPT !.looked = looked,
                                            !.warned = Append(acc.warned, cp)])
             ELSE IF g.kind = "glyph" /\ ~Includes(acc.glyphIds, g.id)
             THEN DirectLookups(font, codePoints, k + 1,
                                [acc EXCEPT !.looked = looked,
                                            !.glyphIds = Append(acc.glyphIds, g.id)])
             ELSE DirectLookups(font, codePoints, k + 1, [acc EXCEPT !.looked = looked])

\* PushRun without the `!glyphIds.includes(glyph.id)` test
PushRunAll(glyphIds, glyphs) == glyphIds \o glyphs

\* `for (const glyph of run.glyphs)`: push the ids not yet in the list
RECURSIVE PushRun(_, _)
PushRun(glyphIds, glyphs) ==
    IF glyphs = <<>> THEN glyphIds
    ELSE PushRun(IF Includes(glyphIds, Head(glyphs)) THEN glyphIds
                 ELSE Append(glyphIds, Head(glyphs)),
                 Tail(glyphs))

\* SequenceLookup with the block entered for a single code point as well
SequenceLookupAlways(font, codePoints, glyphIds) ==
    IF Len(codePoints) > 0
    THEN LET run == Layout(font, FromCodePoint(codePoints))
         IN  [glyphIds |-> IF run.kind = "run" THEN PushRun(glyphIds, run.glyphs) ELSE glyphIds,
              layoutCalled |-> TRUE,
              layoutGlyphs |-> run.glyphs]
    ELSE [glyphIds |-> glyphIds, layoutCalled |-> FALSE, layoutGlyphs |-> <<>>]

\* the `if (codePoints.length > 1)` block
SequenceLookup(font, codePoints, glyphIds) ==
    IF Len(codePoints) > 1
    THEN LET run == Layout(font, FromCodePoint(codePoints))
         IN  [glyphIds |-> IF run.kind = "run" THEN PushRun(glyphIds, run.glyphs) ELSE glyphIds,
              layoutCalled |-> TRUE,
              layoutGlyphs |-> run.glyphs]
    ELSE [glyphIds |-> glyphIds, layoutCalled |-> FALSE, layoutGlyphs |-> <<>>]

\* getGlyphIdsForEmoji(font, emoji) of the given copy ("v2" or "worker")
GetGlyphIdsForEmoji(variant, font, emoji) ==
    LET codePoints == ExtractCodePoints(variant, emoji)
        direct == DirectLookups(font, codePoints, 1,
                                [glyphIds |-> <<>>, looked |-> <<>>, warned |-> <<>>])
        whole == SequenceLookup(font, codePoints, direct.glyphIds)
    IN  [glyphIds |-> whole.glyphIds,
         codePoints |-> codePoints,
         directIds |-> direct.glyphIds,
         looked |-> direct.looked,
         warned |-> direct.warned,
         layoutCalled |-> whole.layoutCalled,
         layoutGlyphs |-> whole.layoutGlyphs]

NoResult ==
    [glyphIds |-> <<>>, codePoints |-> <<>>, directIds |-> <<>>, looked |-> <<>>,
     warned |-> <<>>, layoutCalled |-> FALSE, layoutGlyphs |-> <<>>]

---------------------------------------------------------------------------
(* Specification of the resolver: any font, any string, either copy *)

GlyphIdle ==
    /\ gEmoji = <<>>
    /\ gFont = FontFull
    /\ gPc = "done"
    /\ gVariant = "none"
    /\ gResult = NoResult

RoutesIdle ==
    /\ now = 0
    /\ cache = <<>>
    /\ reqs = <<>>
    /\ nReq = 0
    /\ recent = <<>>
    /\ overlap = {}
    /\ sent = 0
    /\ wcache = {}
    /\ wreqs = <<>>
    /\ wnReq = 0
    /\ runs = <<>>
    /\ temp = {}

\* convertToVectorSvg is not running
NoBatch ==
    [conversionType |-> "png", items |-> <<>>, updatedItems |-> <<>>, pending |-> {},
     completedItems |-> 0, totalItems |-> 0, touched |-> FALSE]

PngIdle == png = <<>>

\* the page as it is first rendered (useState initial values)
PageIdle ==
    /\ svgItems = <<>>
    /\ isConverting = FALSE
    /\ conversionType = "png"
    /\ conversionProgress = 0
    /\ conversionCache = {}
    /\ batch = NoBatch
    /\ finished = {}
    /\ download = {}
    /\ nDrop = 0

\* nothing but the part under study runs, and wawoff2 works as documented
OthersIdle == wawoff2 = "sound" /\ PngIdle /\ PageIdle

InitGlyph ==
    /\ gEmoji \in StringsUpTo(MaxLen)
    /\ gFont \in Fonts
    /\ gPc = "ready"
    /\ gVariant = "none"
    /\ gResult = NoResult
    /\ RoutesIdle
    /\ OthersIdle

ResolveV2 ==
    /\ gPc = "ready"
    /\ gPc' = "done"
    /\ gVariant' = "v2"
    /\ gResult' = GetGlyphIdsForEmoji("v2", gFont, gEmoji)
    /\ UNCHANGED <<gEmoji, gFont, now, v2vars, wvars, svars, ovars>>

ResolveWorker ==
    /\ gPc = "ready"
    /\ gPc' = "done"
    /\ gVariant' = "worker"
    /\ gResult' = GetGlyphIdsForEmoji("worker", gFont, gEmoji)
    /\ UNCHANGED <<gEmoji, gFont, now, v2vars, wvars, svars, ovars>>

NextGlyph == ResolveV2 \/ ResolveWorker

SpecGlyph == InitGlyph /\ [][NextGlyph]_vars

---------------------------------------------------------------------------
(* The v2 route, /api/convert-emoji-v2: the result cache *)

\* new LRUCache({ max: 5, ttl: 1000 * 60 * 60 * 6 })
CACHE_MAX == 5
CACHE_TTL == 1000 * 60 * 60 * 6

\* An entry is [key, value, start]: start is the time of the set() that
\* stored it.
HasKey(c, k) == \E i \in 1..Len(c) : c[i].key = k
IndexOfKey(c, k) == CHOOSE i \in 1..Len(c) : c[i].key = k
RemoveAt(c, i) == SubSeq(c, 1, i - 1) \o SubSeq(c, i + 1, Len(c))
Keys(c) == {c[i].key : i \in 1..Len(c)}

\* IsStale with the entry expiring as soon as it reaches the ttl
IsStaleAtTtl(e, t) == t - e.start >= CACHE_TTL

\* an entry is stale once it is older than the ttl
IsStale(e, t) == t - e.start > CACHE_TTL

\* CacheGet that leaves a hit entry where it is in the order of use
CacheGetNoTouch(c, k, t) ==
    IF ~HasKey(c, k) THEN [cache |-> c, found |-> FALSE, value |-> <<>>]
    ELSE LET i == IndexOfKey(c, k)
             e == c[i]
         IN  IF t - e.start > CACHE_TTL
             THEN [cache |-> RemoveAt(c, i), found |-> FALSE, value |-> <<>>]
             ELSE [cache |-> c, found |-> TRUE, value |-> e.value]

\* CacheGet with updateAgeOnGet: a hit restarts the age of the entry
CacheGetRenewing(c, k, t) ==
    IF ~HasKey(c, k) THEN [cache |-> c, found |-> FALSE, value |-> <<>>]
    ELSE LET i == IndexOfKey(c, k)
             e == c[i]
         IN  IF t - e.start > CACHE_TTL
             THEN [cache |-> RemoveAt(c, i), found |-> FALSE, value |-> <<>>]
             ELSE [cache |-> <<[e EXCEPT !.start = t]>> \o RemoveAt(c, i),
                   found |-> TRUE, value |-> e.value]

\* CacheGet taking the entry it returns out of the cache
CacheGetTaking(c, k, t) ==
    IF ~HasKey(c, k) THEN [cache |-> c, found |-> FALSE, value |-> <<>>]
    ELSE LET i == IndexOfKey(c, k)
             e == c[i]
         IN  [cache |-> RemoveAt(c, i), found |-> ~(t - e.start > CACHE_TTL),
              value |-> IF t - e.start > CACHE_TTL THEN <<>> ELSE e.value]

\* cache.get(k) at time t: a stale entry is deleted and reads as undefined,
\* a fresh one moves to the front and keeps its start time
CacheGet(c, k, t) ==
    IF ~HasKey(c, k) THEN [cache |-> c, found |-> FALSE, value |-> <<>>]
    ELSE LET i == IndexOfKey(c, k)
             e == c[i]
         IN  IF IsStale(e, t)
             THEN [cache |-> RemoveAt(c, i), found |-> FALSE, value |-> <<>>]
             ELSE [cache |-> <<e>> \o RemoveAt(c, i), found |-> TRUE, value |-> e.value]

\* CacheSet with the eviction taking the most recently used entry
CacheSetEvictingNewest(c, k, v, t) ==
    LET e == [key |-> k, value |-> v, start |-> t]
    IN  IF HasKey(c, k) THEN <<e>> \o RemoveAt(c, IndexOfKey(c, k))
        ELSE IF Len(c) >= CACHE_MAX THEN <<e>> \o SubSeq(c, 2, Len(c))
        ELSE <<e>> \o c

\* cache.set(k, v) at time t: a present key is overwritten and its age
\* restarts; a new key into a full cache evicts the least recently used entry
CacheSet(c, k, v, t) ==
    LET e == [key |-> k, value |-> v, start |-> t]
    IN  IF HasKey(c, k) THEN <<e>> \o RemoveAt(c, IndexOfKey(c, k))
        ELSE IF Len(c) >= CACHE_MAX THEN <<e>> \o SubSeq(c, 1, Len(c) - 1)
        ELSE <<e>> \o c

---------------------------------------------------------------------------
(* The v2 route: the handler *)

\* the font file the route reads, public/fonts/NotoColorEmoji-Regular.ttf
RouteFont == FontFull

\* A request body carries emoji as [kind, str]: kind is "absent" (no such
\* field), "null", or "string" with its code units in str.
Absent == [kind |-> "absent", str |-> <<>>]
Null == [kind |-> "null", str |-> <<>>]
Str(s) == [kind |-> "string", str |-> s]

\* !emoji is false
Truthy(emoji) == emoji.kind = "string" /\ emoji.str # <<>>

\* Array.from(emoji): the code points of a string; a TypeError for
\* undefined and null
ArrayFrom(emoji) ==
    IF emoji.kind = "string"
    THEN [threw |-> FALSE, items |-> WorkerCodePointsFrom(emoji.str, 1, <<>>)]
    ELSE [threw |-> TRUE, items |-> <<>>]

\* the digits of Number.prototype.toString(16).toUpperCase()
HexChars == <<"0", "1", "2", "3", "4", "5", "6", "7", "8", "9", "A", "B", "C", "D", "E", "F">>

RECURSIVE ToHex(_)
ToHex(n) ==
    IF n < 16 THEN <<HexChars[n + 1]>>
    ELSE Append(ToHex(n \div 16), HexChars[(n % 16) + 1])

\* `U+${hex}`, character by character
UPlus(cp) == <<"U", "+">> \o ToHex(cp)

\* debugEmoji(emoji)
DebugEmoji(emoji) ==
    LET a == ArrayFrom(emoji)
    IN  [threw |-> a.threw, length |-> Len(emoji.str),
         codePoints |-> [k \in 1..Len(a.items) |-> UPlus(a.items[k])]]

\* Woff2Compress with the time of the compression written into the output
Woff2CompressDated(glyphIds) == <<119, 79, 70, 50>> \o glyphIds \o <<now>>

\* the bytes wawoff2.compress returns for a subset holding these glyphs:
\* the signature 77 4F 46 32, then the compressed tables; a build that does
\* not work as documented leaves the signature out
Woff2Compress(glyphIds) ==
    IF wawoff2 = "sound" THEN <<119, 79, 70, 50>> \o glyphIds ELSE glyphIds

\* createEmojiSubset with the time of the run written into its output
CreateEmojiSubsetDated(emoji, envOk) ==
    IF ~envOk THEN [ok |-> FALSE, data |-> <<>>]
    ELSE [ok |-> TRUE,
          data |-> Woff2Compress(GetGlyphIdsForEmoji("v2", RouteFont, emoji).glyphIds) \o <<now>>]

\* createEmojiSubset(emoji); envOk is whether the font file is there and
\* the libraries do not throw
CreateEmojiSubset(emoji, envOk) ==
    IF ~envOk THEN [ok |-> FALSE, data |-> <<>>]
    ELSE [ok |-> TRUE,
          data |-> Woff2Compress(GetGlyphIdsForEmoji("v2", RouteFont, emoji).glyphIds)]

NoSvg == [kind |-> "none", emoji |-> <<>>, width |-> 0, height |-> 0, fontFileName |-> 0 - 1]

\* CreateSvgWithFont drawing every SVG in the default size
CreateSvgWithFontDefaultSize(emoji, width, height, fontFileName) ==
    [kind |-> "font", emoji |-> emoji, width |-> 72, height |-> 72,
     fontFileName |-> fontFileName]

\* createSvgWithFont(emoji, "EmojiSubset", width, height, fontFileName)
CreateSvgWithFont(emoji, width, height, fontFileName) ==
    [kind |-> "font", emoji |-> emoji, width |-> width, height |-> height,
     fontFileName |-> fontFileName]

\* createSimpleSvg(emoji, width, height)
CreateSimpleSvg(emoji, width, height) ==
    [kind |-> "simple", emoji |-> emoji, width |-> width, height |-> height,
     fontFileName |-> 0 - 1]

\* A response; fontFileName is the number in `emoji-font-${Date.now()}.woff2`.
\* codePoints, cacheHit, processingTimeMs, fontBase64Length and
\* fontSubsetError are the fields of its `debug` record: "unset", -1 and ""
\* stand for a field that is not there.
NoResponse ==
    [status |-> 0, error |-> "", fontProcessed |-> FALSE, fontData |-> <<>>,
     fontFileName |-> 0 - 1, svgContent |-> NoSvg, codePoints |-> <<>>, cacheHit |-> "unset",
     processingTimeMs |-> 0 - 1, fontBase64Length |-> 0 - 1, fontSubsetError |-> ""]

\* debugInfo as POST creates it: { emojiDetails: emojiInfo }
DebugInfo(emojiInfo) ==
    [codePoints |-> emojiInfo.codePoints, cacheHit |-> "unset", processingTimeMs |-> 0 - 1,
     fontBase64Length |-> 0 - 1, fontSubsetError |-> ""]

\* a response with `debug: debugInfo`
WithDebug(resp, debugInfo) ==
    [resp EXCEPT !.codePoints = debugInfo.codePoints,
                 !.cacheHit = debugInfo.cacheHit,
                 !.processingTimeMs = debugInfo.processingTimeMs,
                 !.fontBase64Length = debugInfo.fontBase64Length,
                 !.fontSubsetError = debugInfo.fontSubsetError]

\* the outer catch: status 500
ErrorResponse(message) ==
    [NoResponse EXCEPT !.status = 500, !.error = message]

\* `if (!emoji)`: status 400
RequiredResponse ==
    [NoResponse EXCEPT !.status = 400, !.error = "Emoji is required"]

\* the fallback of the catch block and of `!hasFontSubset`
FallbackResponse(emoji, width, height, debugInfo) ==
    WithDebug([NoResponse EXCEPT !.status = 200,
                                 !.svgContent = CreateSimpleSvg(emoji, width, height)],
              debugInfo)

\* the final return of POST
FontResponse(emoji, width, height, fontBase64, debugInfo, t) ==
    WithDebug([NoResponse EXCEPT !.status = 200, !.fontProcessed = TRUE,
                                 !.fontData = fontBase64, !.fontFileName = t,
                                 !.svgContent = CreateSvgWithFont(emoji, width, height, t)],
              debugInfo)

\* A request slot:
\*   pc         "idle" | "building" (at `await createEmojiSubset`) | "answered"
\*   startTime  the Date.now() taken before createEmojiSubset was called
\*   started    how many times the request has called createEmojiSubset
IdleSlot ==
    [pc |-> "idle", emoji |-> Absent, width |-> 0, height |-> 0, startTime |-> 0,
     started |-> 0, resp |-> NoResponse]

Answered(emoji, width, height, started, resp) ==
    [pc |-> "answered", emoji |-> emoji, width |-> width, height |-> height, startTime |-> 0,
     started |-> started, resp |-> resp]

\* POST from the parsed body to its first suspension: the response of a
\* request answered at once, or the slot waiting for createEmojiSubset
PostStart(c, emoji, width, height, t) ==
    LET emojiInfo == DebugEmoji(emoji)
        debugInfo == DebugInfo(emojiInfo)
    IN  IF emojiInfo.threw
        THEN [cache |-> c, used |-> FALSE,
              slot |-> Answered(emoji, width, height, 0, ErrorResponse("TypeError"))]
        ELSE IF ~Truthy(emoji)
        THEN [cache |-> c, used |-> FALSE,
              slot |-> Answered(emoji, width, height, 0, RequiredResponse)]
        ELSE LET first == CacheGet(c, emoji.str, t)
             IN  IF first.found /\ first.value # <<>>
                 THEN LET second == CacheGet(first.cache, emoji.str, t)
                          fontBase64 == IF second.found THEN second.value ELSE <<>>
                          hit == [debugInfo EXCEPT !.cacheHit = "hit"]
                      IN  [cache |-> second.cache, used |-> TRUE,
                           slot |-> Answered(emoji, width, height, 0,
                                      IF fontBase64 # <<>>
                                      THEN FontResponse(emoji.str, width, height, fontBase64,
                                                        hit, t)
                                      ELSE FallbackResponse(emoji.str, width, height, hit))]
                 ELSE [cache |-> first.cache, used |-> FALSE,
                       slot |-> [pc |-> "building", emoji |-> emoji, width |-> width,
                                 height |-> height, startTime |-> t, started |-> 1,
                                 resp |-> NoResponse]]

\* PostFinish with a failed build stored in the cache as an empty result
PostFinishCachingFailure(c, slot, envOk, t) ==
    LET subset == CreateEmojiSubset(slot.emoji.str, envOk)
        miss == [DebugInfo(DebugEmoji(slot.emoji)) EXCEPT !.cacheHit = "miss"]
    IN  IF subset.ok /\ subset.data # <<>>
        THEN [cache |-> CacheSet(c, slot.emoji.str, subset.data, t), used |-> TRUE,
              slot |-> Answered(slot.emoji, slot.width, slot.height, slot.started,
                         FontResponse(slot.emoji.str, slot.width, slot.height, subset.data,
                                      [miss EXCEPT !.processingTimeMs = t - slot.startTime,
                                                   !.fontBase64Length = Len(subset.data)],
                                      t))]
        ELSE [cache |-> CacheSet(c, slot.emoji.str, <<>>, t), used |-> FALSE,
              slot |-> Answered(slot.emoji, slot.width, slot.height, slot.started,
                         FallbackResponse(slot.emoji.str, slot.width, slot.height,
                                          [miss EXCEPT !.fontSubsetError = "subsetting failed"]))]

\* PostFinish with one more attempt after a failed build
PostFinishRetrying(c, slot, envOk, t) ==
    LET subset == CreateEmojiSubset(slot.emoji.str, envOk)
        miss == [DebugInfo(DebugEmoji(slot.emoji)) EXCEPT !.cacheHit = "miss"]
    IN  IF subset.ok /\ subset.data # <<>>
        THEN [cache |-> CacheSet(c, slot.emoji.str, subset.data, t), used |-> TRUE,
              slot |-> Answered(slot.emoji, slot.width, slot.height, slot.started,
                         FontResponse(slot.emoji.str, slot.width, slot.height, subset.data,
                                      [miss EXCEPT !.processingTimeMs = t - slot.startTime,
                                                   !.fontBase64Length = Len(subset.data)],
                                      t))]
        ELSE IF slot.started < 2
        THEN [cache |-> c, used |-> FALSE,
              slot |-> [slot EXCEPT !.startTime = t, !.started = @ + 1]]
        ELSE [cache |-> c, used |-> FALSE,
              slot |-> Answered(slot.emoji, slot.width, slot.height, slot.started,
                         FallbackResponse(slot.emoji.str, slot.width, slot.height,
                                          [miss EXCEPT !.fontSubsetError = "subsetting failed"]))]

\* POST after createEmojiSubset has settled: envOk is whether it returned;
\* an empty result is thrown as "Font subsetting returned null" after the
\* processing time has been taken
PostFinish(c, slot, envOk, t) ==
    LET subset == CreateEmojiSubset(slot.emoji.str, envOk)
        miss == [DebugInfo(DebugEmoji(slot.emoji)) EXCEPT !.cacheHit = "miss"]
        timed == [miss EXCEPT !.processingTimeMs = t - slot.startTime]
    IN  IF subset.ok /\ subset.data # <<>>
        THEN [cache |-> CacheSet(c, slot.emoji.str, subset.data, t), used |-> TRUE,
              slot |-> Answered(slot.emoji, slot.width, slot.height, slot.started,
                         FontResponse(slot.emoji.str, slot.width, slot.height, subset.data,
                                      [timed EXCEPT !.fontBase64Length = Len(subset.data)],
                                      t))]
        ELSE [cache |-> c, used |-> FALSE,
              slot |-> Answered(slot.emoji, slot.width, slot.height, slot.started,
                         FallbackResponse(slot.emoji.str, slot.width, slot.height,
                                          IF subset.ok
                                          THEN [timed EXCEPT !.fontSubsetError =
                                                                 "Font subsetting returned null"]
                                          ELSE [miss EXCEPT !.fontSubsetError =
                                                                "subsetting failed"]))]

Slots == {1, 2}

\* the keys in the order of their last request: k has just been hit or
\* stored when used holds
Touch(order, k, used) ==
    LET Other(x) == x # k
    IN  IF used THEN <<k>> \o SelectSeq(order, Other) ELSE order

\* the pairs of slots in flight together, once slot r takes a new request:
\* its request meets those the other slots are still building
Meet(pairs, r) ==
    {p \in pairs : r \notin p} \cup {{r, q} : q \in {x \in Slots \ {r} : reqs[x].pc = "building"}}

\* a request arrives in slot r and runs to its answer or to the await
Receive(r, emoji, dims, limit) ==
    /\ reqs[r].pc # "building"
    /\ nReq < limit
    /\ LET out == PostStart(cache, emoji, dims[1], dims[2], now)
       IN  /\ cache' = out.cache
           /\ reqs' = [reqs EXCEPT ![r] = out.slot]
           /\ recent' = Touch(recent, emoji.str, out.used)
    /\ overlap' = Meet(overlap, r)
    /\ nReq' = nReq + 1
    /\ UNCHANGED <<gvars, now, wvars, svars, ovars>>

\* createEmojiSubset settles for the request of slot r
Complete(r, envOk) ==
    /\ reqs[r].pc = "building"
    /\ LET out == PostFinish(cache, reqs[r], envOk, now)
       IN  /\ cache' = out.cache
           /\ reqs' = [reqs EXCEPT ![r] = out.slot]
           /\ recent' = Touch(recent, reqs[r].emoji.str, out.used)
    /\ UNCHANGED <<gvars, now, nReq, overlap, sent, wvars, svars, ovars>>

\* the instants of a run: up to MaxMs milliseconds after the start and
\* after one cache lifetime
InRun(t) == t \div CACHE_TTL <= 1 /\ t % CACHE_TTL <= MaxMs

\* d milliseconds pass
Advance(d) ==
    /\ InRun(now + d)
    /\ now' = now + d
    /\ UNCHANGED <<gvars, v2vars, wvars, svars, ovars>>

\* what the clients of a run send
Bodies == {Absent, Null, Str(<<>>), Str(<<9786>>), Str(<<55357, 56832>>)}
Dims == {<<72, 72>>, <<100, 50>>}

InitV2 ==
    /\ GlyphIdle
    /\ now = 0
    /\ cache = <<>>
    /\ reqs = [r \in Slots |-> IdleSlot]
    /\ nReq = 0
    /\ recent = <<>>
    /\ overlap = {}
    /\ sent = 0
    /\ wcache = {}
    /\ wreqs = <<>>
    /\ wnReq = 0
    /\ runs = <<>>
    /\ temp = {}
    /\ OthersIdle

NextV2 ==
    \/ \E r \in Slots, emoji \in Bodies, dims \in Dims :
          Receive(r, emoji, dims, MaxRequests) /\ UNCHANGED sent
    \/ \E r \in Slots, envOk \in BOOLEAN : Complete(r, envOk)
    \/ \E d \in {1, CACHE_TTL} : Advance(d)

SpecV2 == InitV2 /\ [][NextV2]_vars

\* the capacity runs: six different emoji, default dimensions, and every
\* build succeeds (a failed build leaves the cache alone). The cache
\* treats all keys alike, so the clients take a new emoji from this list in
\* order: a request repeats an emoji sent before or sends the next new one.
LruEmojis ==
    <<(<<9786>>), (<<55357, 56832>>), (<<0>>), (<<9786, 9786>>),
      (<<55357, 56832, 9786>>), (<<55357, 56832, 8205, 9786>>)>>

NextLru ==
    \/ \E r \in Slots, i \in 1..Len(LruEmojis) :
          /\ i <= sent + 1
          /\ Receive(r, Str(LruEmojis[i]), <<72, 72>>, MaxLruRequests)
          /\ sent' = IF i > sent THEN i ELSE sent
    \/ \E r \in Slots : Complete(r, TRUE)
    \/ Advance(CACHE_TTL + 1)

SpecLru == InitV2 /\ [][NextLru]_vars

---------------------------------------------------------------------------
(* createEmojiSubset of the v2 route, by its steps *)

\* The `temp` directory: a file is [path, content], at most one per path; a
\* path is [ext, stamp], the extension and the number of `emoji-${Date.now()}`.
Path(ext, stamp) == [ext |-> ext, stamp |-> stamp]
Exists(files, path) == \E f \in files : f.path = path
ReadFile(files, path) == (CHOOSE f \in files : f.path = path).content
WriteFile(files, path, content) ==
    {f \in files : f.path # path} \cup {[path |-> path, content |-> content]}
Unlink(files, path) == {f \in files : f.path # path}

\* An invocation of createEmojiSubset:
\*   pc          "idle" | "compressing" (at `await wawoff2.compress`) |
\*               "returned" | "thrown"
\*   at          the time it was called
\*   outputPath  the number in the name of its temporary file, -1 without one
\*   directIds   the glyphs of the direct lookups
\*   subset      the glyph list given to fontObject.optimize as `subset`
\*   ttfBuffer   the TTF that fontObject.write returned, given by the glyphs
\*               the subset keeps
\*   steps       the stages run so far
\*   result      the base64 data returned
RunIdle ==
    [pc |-> "idle", emoji |-> <<>>, isDevEnv |-> FALSE, at |-> 0, outputPath |-> 0 - 1,
     directIds |-> <<>>, subset |-> <<>>, ttfBuffer |-> <<>>, steps |-> <<>>,
     result |-> <<>>, error |-> ""]

\* createEmojiSubset up to `await wawoff2.compress(ttfBufferArray)`;
\* fontThere is fs.existsSync(fontPath)
CreateEmojiSubsetStart(files, font, emoji, isDevEnv, fontThere, t) ==
    LET outputPath == IF isDevEnv THEN t ELSE 0 - 1
        begun == [RunIdle EXCEPT !.emoji = emoji, !.isDevEnv = isDevEnv, !.at = t,
                                 !.outputPath = outputPath]
    IN  IF ~fontThere
        THEN [temp |-> files,
              run |-> [begun EXCEPT !.pc = "thrown", !.error = "Font file not found"]]
        ELSE LET found == GetGlyphIdsForEmoji("v2", font, emoji)
                 ttfBuffer == found.glyphIds
             IN  [temp |-> IF isDevEnv
                           THEN WriteFile(files, Path("ttf", outputPath), ttfBuffer)
                           ELSE files,
                  run |-> [begun EXCEPT !.pc = "compressing",
                                        !.directIds = found.directIds,
                                        !.subset = found.glyphIds,
                                        !.ttfBuffer = ttfBuffer,
                                        !.steps = <<"resolve", "optimize", "write">>]]

\* createEmojiSubset from the settling of wawoff2.compress to its return
CreateEmojiSubsetFinish(files, run, compressOk) ==
    IF ~compressOk
    THEN [temp |-> files,
          run |-> [run EXCEPT !.pc = "thrown", !.error = "compress failed",
                              !.steps = Append(@, "compress")]]
    ELSE [temp |-> IF run.isDevEnv THEN Unlink(files, Path("ttf", run.outputPath)) ELSE files,
          run |-> [run EXCEPT !.pc = "returned", !.steps = Append(@, "compress"),
                              !.result = Woff2Compress(run.ttfBuffer)]]

\* the strings given to createEmojiSubset
SubsetEmojis == {<<9786>>, <<9786, 9786>>, <<8205>>}

\* createEmojiSubset is called in slot r
SubsetStart(r, emoji, isDevEnv, fontThere) ==
    /\ runs[r].pc # "compressing"
    /\ LET out == CreateEmojiSubsetStart(temp, gFont, emoji, isDevEnv, fontThere, now)
       IN  /\ runs' = [runs EXCEPT ![r] = out.run]
           /\ temp' = out.temp
    /\ UNCHANGED <<gvars, now, v2vars, wvars, ovars>>

\* wawoff2.compress settles for the invocation of slot r
SubsetFinish(r, compressOk) ==
    /\ runs[r].pc = "compressing"
    /\ LET out == CreateEmojiSubsetFinish(temp, runs[r], compressOk)
       IN  /\ runs' = [runs EXCEPT ![r] = out.run]
           /\ temp' = out.temp
    /\ UNCHANGED <<gvars, now, v2vars, wvars, ovars>>

InitSubset ==
    /\ gEmoji = <<>>
    /\ gFont \in Fonts
    /\ gPc = "done"
    /\ gVariant = "none"
    /\ gResult = NoResult
    /\ now = 0
    /\ cache = <<>>
    /\ reqs = <<>>
    /\ nReq = 0
    /\ recent = <<>>
    /\ overlap = {}
    /\ sent = 0
    /\ wcache = {}
    /\ wreqs = <<>>
    /\ wnReq = 0
    /\ runs = [r \in Slots |-> RunIdle]
    /\ temp = {}
    /\ OthersIdle

NextSubset ==
    \/ \E r \in Slots, emoji \in SubsetEmojis, isDevEnv \in BOOLEAN, fontThere \in BOOLEAN :
          SubsetStart(r, emoji, isDevEnv, fontThere)
    \/ \E r \in Slots, compressOk \in BOOLEAN : SubsetFinish(r, compressOk)
    \/ Advance(1)

SpecSubset == InitSubset /\ [][NextSubset]_vars

---------------------------------------------------------------------------
(* The worker route, /api/convert-emoji *)

\* const emojiSubsetCache: Record<string, string> = {}: a set of
\* [key, value, storedAt], one entry per key; storedAt is the time of the
\* assignment and is not part of the object
WHasKey(c, k) == \E e \in c : e.key = k
WEntry(c, k) == CHOOSE e \in c : e.key = k

\* emojiSubsetCache[emoji] = fontBase64
WStore(c, k, v, t) ==
    {e \in c : e.key # k} \cup {[key |-> k, value |-> v, storedAt |-> t]}

\* the bytes processEmoji of the worker script writes to its output path
ProcessEmoji(emoji) ==
    Woff2Compress(GetGlyphIdsForEmoji("worker", RouteFont, emoji).glyphIds)

\* RunWorkerScript returning what the worker of this emoji built, whatever
\* the output file holds by then
RunWorkerScriptOwn(files, slot, code) ==
    IF code # 0
    THEN [ok |-> FALSE, data |-> <<>>, error |-> "Worker process exited"]
    ELSE [ok |-> TRUE, data |-> ProcessEmoji(slot.emoji.str), error |-> ""]

\* the `close` handler of runWorkerScript: what the promise settles with,
\* read from the file at the output path of the request
RunWorkerScript(files, slot, code) ==
    LET outputPath == Path("woff2", slot.outputPath)
    IN  IF code # 0
        THEN [ok |-> FALSE, data |-> <<>>, error |-> "Worker process exited"]
        ELSE IF ~Exists(files, outputPath)
        THEN [ok |-> FALSE, data |-> <<>>, error |-> "Output file not created"]
        ELSE LET fileBuffer == ReadFile(files, outputPath)
             IN  IF Len(fileBuffer) < 4
                 THEN [ok |-> FALSE, data |-> <<>>,
                       error |-> "Generated file is too small to be valid"]
                 ELSE IF SubSeq(fileBuffer, 1, 4) # <<119, 79, 70, 50>>
                 THEN [ok |-> FALSE, data |-> <<>>,
                       error |-> "Generated file is not a valid WOFF2 file"]
                 ELSE [ok |-> TRUE, data |-> fileBuffer, error |-> ""]

\* createSvgWithFont(emoji, fontBase64) and createSimpleSvg(emoji) of this route
WSvgWithFont(emoji, fontBase64) == [kind |-> "font", emoji |-> emoji, fontBase64 |-> fontBase64]
WSimpleSvg(emoji) == [kind |-> "simple", emoji |-> emoji, fontBase64 |-> <<>>]

\* A response of this route; age (how old the served cache entry was) is
\* not sent: it records what the handler did.
WNoResponse ==
    [status |-> 0, error |-> "", fontProcessed |-> FALSE,
     svgContent |-> [kind |-> "none", emoji |-> <<>>, fontBase64 |-> <<>>],
     cacheHit |-> "unset", fontSubsetError |-> "", age |-> 0]

WFallbackResponse(emoji, cacheHit, message) ==
    [WNoResponse EXCEPT !.status = 200, !.svgContent = WSimpleSvg(emoji),
                        !.cacheHit = cacheHit, !.fontSubsetError = message]

WFontResponse(emoji, fontBase64, cacheHit, age) ==
    [WNoResponse EXCEPT !.status = 200, !.fontProcessed = TRUE,
                        !.svgContent = WSvgWithFont(emoji, fontBase64),
                        !.cacheHit = cacheHit, !.age = age]

\* A request slot; outputPath is the number in `emoji-${Date.now()}.woff2`
\* of the request's worker, -1 without one; code is the exit code its worker
\* closed with, -1 as long as there is none.
WIdleSlot ==
    [pc |-> "idle", emoji |-> Absent, outputPath |-> 0 - 1, code |-> 0 - 1,
     resp |-> WNoResponse]
WAnswered(emoji, resp) ==
    [pc |-> "answered", emoji |-> emoji, outputPath |-> 0 - 1, code |-> 0 - 1,
     resp |-> resp]

\* POST from the parsed body to its answer or to `await runWorkerScript`
WPostStart(c, emoji, t) ==
    IF DebugEmoji(emoji).threw
    THEN WAnswered(emoji, [WNoResponse EXCEPT !.status = 500, !.error = "TypeError"])
    ELSE IF ~Truthy(emoji)
    THEN WAnswered(emoji, [WNoResponse EXCEPT !.status = 400, !.error = "Emoji is required"])
    ELSE IF WHasKey(c, emoji.str) /\ WEntry(c, emoji.str).value # <<>>
    THEN LET e == WEntry(c, emoji.str)
         IN  WAnswered(emoji, WFontResponse(emoji.str, e.value, "hit", t - e.storedAt))
    ELSE [pc |-> "working", emoji |-> emoji, outputPath |-> t, code |-> 0 - 1,
          resp |-> WNoResponse]

\* POST after runWorkerScript has settled; code is the exit code of the worker
WPostFinish(c, files, slot, code, t) ==
    LET subset == RunWorkerScript(files, slot, code)
    IN  IF subset.ok /\ subset.data # <<>>
        THEN [cache |-> WStore(c, slot.emoji.str, subset.data, t),
              slot |-> WAnswered(slot.emoji, WFontResponse(slot.emoji.str, subset.data, "miss", 0))]
        ELSE [cache |-> c,
              slot |-> WAnswered(slot.emoji,
                         WFallbackResponse(slot.emoji.str, "miss",
                                           IF subset.ok THEN "Font subsetting returned null"
                                           ELSE subset.error))]

\* a request arrives in slot r of the worker route
WReceive(r, emoji) ==
    /\ wreqs[r].pc \notin {"working", "written"}
    /\ wnReq < MaxRequests
    /\ wreqs' = [wreqs EXCEPT ![r] = WPostStart(wcache, emoji, now)]
    /\ wnReq' = wnReq + 1
    /\ UNCHANGED <<gvars, now, v2vars, wcache, svars, ovars>>

\* the worker process of slot r writes its WOFF2 file (processEmoji,
\* fs.writeFileSync(outputPath, woff2Buffer))
WorkerWrite(r) ==
    /\ wreqs[r].pc = "working"
    /\ temp' = WriteFile(temp, Path("woff2", wreqs[r].outputPath),
                         ProcessEmoji(wreqs[r].emoji.str))
    /\ wreqs' = [wreqs EXCEPT ![r].pc = "written"]
    /\ UNCHANGED <<gvars, now, v2vars, wcache, wnReq, runs, ovars>>

\* a worker script that may exit with code 0 at any point
WorkerExitCodesAny(pc) == {0, 1}

\* the exit codes the worker process can end with where it stands:
\* process.exit(0) comes after fs.writeFileSync(outputPath, woff2Buffer);
\* the argument check, the missing font and the catch block exit with 1
WorkerExitCodes(pc) == IF pc = "written" THEN {0, 1} ELSE {1}

\* the worker process of slot r closes with this exit code and the `close`
\* handler of runWorkerScript settles the promise POST awaits
WorkerClose(r, code) ==
    /\ wreqs[r].pc \in {"working", "written"}
    /\ code \in WorkerExitCodes(wreqs[r].pc)
    /\ LET out == WPostFinish(wcache, temp, wreqs[r], code, now)
       IN  /\ wcache' = out.cache
           /\ wreqs' = [wreqs EXCEPT ![r] = [out.slot EXCEPT !.code = code]]
    /\ UNCHANGED <<gvars, now, v2vars, wnReq, svars, ovars>>

InitWorker ==
    /\ GlyphIdle
    /\ now = 0
    /\ cache = <<>>
    /\ reqs = <<>>
    /\ nReq = 0
    /\ recent = <<>>
    /\ overlap = {}
    /\ sent = 0
    /\ wcache = {}
    /\ wreqs = [r \in Slots |-> WIdleSlot]
    /\ wnReq = 0
    /\ runs = <<>>
    /\ temp = {}
    /\ OthersIdle

NextWorker ==
    \/ \E r \in Slots, emoji \in Bodies : WReceive(r, emoji)
    \/ \E r \in Slots : WorkerWrite(r)
    \/ \E r \in Slots, code \in {0, 1} : WorkerClose(r, code)
    \/ \E d \in {1, CACHE_TTL} : Advance(d)

SpecWorker == InitWorker /\ [][NextWorker]_vars

---------------------------------------------------------------------------
(* Both routes building the asset of one emoji, with either build of wawoff2 *)

InitAsset ==
    /\ GlyphIdle
    /\ now = 0
    /\ cache = <<>>
    /\ reqs = <<>>
    /\ nReq = 0
    /\ recent = <<>>
    /\ overlap = {}
    /\ sent = 0
    /\ wcache = {}
    /\ wreqs = [r \in Slots |-> WIdleSlot]
    /\ wnReq = 0
    /\ runs = [r \in Slots |-> RunIdle]
    /\ temp = {}
    /\ wawoff2 \in {"sound", "unsound"}
    /\ PngIdle
    /\ PageIdle

NextAsset ==
    \/ \E emoji \in {<<9786>>, <<8205>>}, isDevEnv \in BOOLEAN, fontThere \in BOOLEAN :
          SubsetStart(1, emoji, isDevEnv, fontThere)
    \/ \E compressOk \in BOOLEAN : SubsetFinish(1, compressOk)
    \/ WReceive(2, Str(<<9786>>))
    \/ WorkerWrite(2)
    \/ \E code \in {0, 1} : WorkerClose(2, code)
    \/ Advance(1)

SpecAsset == InitAsset /\ [][NextAsset]_vars

---------------------------------------------------------------------------
(* createEmojiPng of the PNG route, /api/convert-emoji-png, by its awaits *)

\* the awaited steps of the try block, in order; the screenshot step ends
\* with the synchronous base64 encoding
PngSteps == <<"launch", "newPage", "setContent", "setViewport", "screenshot">>

\* A call of createEmojiPng:
\*   pc       "idle" | a step of PngSteps (the call waits for it) |
\*            "closing" (at `await browser.close()`) | "returned" | "thrown"
\*   browser  "none" | "open" | "closed": the browser puppeteer.launch gave
\*   failed   the step that threw, "" if none did
\*   closes   how many times browser.close() was called
PngCallIdle == [pc |-> "idle", browser |-> "none", failed |-> "", closes |-> 0]

\* a try block whose exit closes the browser only when no step has thrown
PngFinallyOnSuccess(call) ==
    IF call.browser = "open" /\ call.failed = ""
    THEN [call EXCEPT !.pc = "closing", !.closes = @ + 1]
    ELSE [call EXCEPT !.pc = IF call.failed = "" THEN "returned" ELSE "thrown"]

\* the try block is left, by `return base64Data` or by the rethrow of the
\* catch block: finally { if (browser) { await browser.close(); } }
PngFinally(call) ==
    IF call.browser = "open"
    THEN [call EXCEPT !.pc = "closing", !.closes = @ + 1]
    ELSE [call EXCEPT !.pc = IF call.failed = "" THEN "returned" ELSE "thrown"]

\* the step the call waits for settles: outcome is "ok", "throws", or (for
\* the screenshot) "encodeThrows" when Buffer.from / toString throws
CreateEmojiPngStep(call, k, outcome) ==
    LET after == IF k = 1 /\ outcome = "ok" THEN [call EXCEPT !.browser = "open"] ELSE call
    IN  IF outcome = "throws" THEN PngFinally([after EXCEPT !.failed = PngSteps[k]])
        ELSE IF outcome = "encodeThrows" THEN PngFinally([after EXCEPT !.failed = "encode"])
        ELSE IF k = Len(PngSteps) THEN PngFinally(after)
        ELSE [after EXCEPT !.pc = PngSteps[k + 1]]

\* browser.close() settles and createEmojiPng returns or throws
CreateEmojiPngClose(call, closeOk) ==
    IF closeOk
    THEN [call EXCEPT !.browser = "closed",
                      !.pc = IF call.failed = "" THEN "returned" ELSE "thrown"]
    ELSE [call EXCEPT !.pc = "thrown", !.failed = "close"]

\* createEmojiPng is called in slot r
PngCall(r) ==
    /\ png[r].pc \in {"idle", "returned", "thrown"}
    /\ png' = [png EXCEPT ![r] = [PngCallIdle EXCEPT !.pc = PngSteps[1]]]
    /\ UNCHANGED <<gvars, now, v2vars, wvars, svars, wawoff2, cvars>>

\* the step the call of slot r waits for settles
PngStep(r, k, outcome) ==
    /\ png[r].pc = PngSteps[k]
    /\ outcome = "encodeThrows" => k = Len(PngSteps)
    /\ png' = [png EXCEPT ![r] = CreateEmojiPngStep(png[r], k, outcome)]
    /\ UNCHANGED <<gvars, now, v2vars, wvars, svars, wawoff2, cvars>>

\* browser.close() of the call of slot r settles
PngClose(r, closeOk) ==
    /\ png[r].pc = "closing"
    /\ png' = [png EXCEPT ![r] = CreateEmojiPngClose(png[r], closeOk)]
    /\ UNCHANGED <<gvars, now, v2vars, wvars, svars, wawoff2, cvars>>

InitPng ==
    /\ GlyphIdle
    /\ RoutesIdle
    /\ wawoff2 = "sound"
    /\ png = [r \in Slots |-> PngCallIdle]
    /\ PageIdle

NextPng ==
    \/ \E r \in Slots : PngCall(r)
    \/ \E r \in Slots, k \in 1..Len(PngSteps), outcome \in {"ok", "throws", "encodeThrows"} :
          PngStep(r, k, outcome)
    \/ \E r \in Slots, closeOk \in BOOLEAN : PngClose(r, closeOk)

SpecPng == InitPng /\ [][NextPng]_vars

---------------------------------------------------------------------------
(* The client page, src/app/page.tsx *)

\* An SvgItem: content is the text of the first text element of the uploaded
\* SVG (Absent: there is none); NoSvg, <<>>, -1 and "" stand for a field
\* that is undefined or null.
SvgItem(id, content) ==
    [id |-> id, content |-> content, convertedContent |-> NoSvg, fontData |-> <<>>,
     fontFileName |-> 0 - 1, error |-> ""]

\* item.convertedContent and item.error as conditions
IsConverted(item) == item.convertedContent.kind # "none"
HasError(item) == item.error # ""

\* what the uploaded files hold
Contents == {Str(<<9786>>), Absent}

\* the checks of the parsed SVG: the message thrown, "" when the text is there
ParseError(content) ==
    IF content.kind # "string"
    THEN "No text element found in SVG. This SVG might not contain an emoji."
    ELSE IF content.str = <<>>
    THEN "Text content is empty. Please ensure the SVG contains emoji text."
    ELSE ""

\* `${itemTextContent}-${conversionType}`
CacheKey(text, type) == [text |-> text, type |-> type]
PageCacheHas(c, k) == \E e \in c : e.key = k
PageCacheGet(c, k) == (CHOOSE e \in c : e.key = k).value
PageCacheSet(c, k, v) == {e \in c : e.key # k} \cup {[key |-> k, value |-> v]}

\* the PNG route: the screenshot of the emoji and createSvgWithPng (the
\* element ids it derives from Date.now() are left out)
Screenshot(emoji) == <<137, 80, 78, 71>> \o emoji
CreateSvgWithPng(emoji, pngBase64, width, height) ==
    [kind |-> "png", emoji |-> emoji, width |-> width, height |-> height,
     pngBase64 |-> pngBase64]

\* POST of the PNG route for a non-empty emoji: pngOk is whether
\* createEmojiPng returned
PngPost(emoji, width, height, pngOk) ==
    IF pngOk
    THEN [NoResponse EXCEPT !.status = 200,
                            !.svgContent = CreateSvgWithPng(emoji, Screenshot(emoji),
                                                            width, height)]
    ELSE [NoResponse EXCEPT !.status = 500, !.error = "Failed to create PNG image"]

\* the times (Date.now() of the server) a reply can have been made at
ServerTimes == {0, 1}

\* What a callback of the batch can get for its emoji at server time t:
\*   "thrown"     createEmojiPng or fetch threw
\*   "malformed"  a 200 whose body is not JSON
\*   "json"       a response of the route of the conversion type: built,
\*                fallback or error; or a 200 without svgContent
Replies(type, text, t) ==
    {[kind |-> "thrown", resp |-> NoResponse],
     [kind |-> "malformed", resp |-> [NoResponse EXCEPT !.status = 200]],
     [kind |-> "json", resp |-> [NoResponse EXCEPT !.status = 200]]}
    \cup
    IF type = "foreignObject"
    THEN {[kind |-> "json",
           resp |-> PostFinish(<<>>, [IdleSlot EXCEPT !.pc = "building", !.emoji = Str(text),
                                                     !.width = 48, !.height = 48,
                                                     !.startTime = t, !.started = 1],
                               envOk, t).slot.resp] : envOk \in BOOLEAN}
         \cup {[kind |-> "json", resp |-> ErrorResponse("TypeError")]}
    ELSE {[kind |-> "json", resp |-> PngPost(text, 48, 48, pngOk)] : pngOk \in BOOLEAN}

\* the replies for this emoji whatever the time
RepliesFor(type, text) == UNION {Replies(type, text, t) : t \in ServerTimes}

\* the item a callback puts into updatedItems for what it got
ConvertItem(item, reply) ==
    IF reply.kind = "thrown"
    THEN [item EXCEPT !.error = "Failed to convert emoji"]
    ELSE IF reply.resp.status # 200
    THEN [item EXCEPT !.error = IF reply.resp.error # "" THEN reply.resp.error
                                 ELSE "Server error"]
    ELSE IF reply.kind = "malformed"
    THEN [item EXCEPT !.error = "Invalid response format from server"]
    ELSE IF reply.resp.svgContent.kind = "none"
    THEN [item EXCEPT !.error = "Invalid SVG data returned from server"]
    ELSE [item EXCEPT !.convertedContent = reply.resp.svgContent,
                      !.fontData = reply.resp.fontData,
                      !.fontFileName = reply.resp.fontFileName]

\* the callback got a converted SVG
IsSuccess(reply) ==
    reply.kind = "json" /\ reply.resp.status = 200 /\ reply.resp.svgContent.kind # "none"

\* Math.round((completedItems / totalItems) * 100)
Progress(completedItems, totalItems) == (200 * completedItems + totalItems) \div (2 * totalItems)

\* the index of the item with this id, 0 if there is none (findIndex)
FindIndex(items, id) ==
    IF \E i \in 1..Len(items) : items[i].id = id
    THEN CHOOSE i \in 1..Len(items) : items[i].id = id
    ELSE 0

\* The synchronous part of the callbacks of a batch, item by item from
\* position k: an item that does not parse gets its error, an item whose
\* key is in the cache gets the cached result, the others wait for their
\* request. b is the closure of the batch.
RECURSIVE BatchStart(_, _, _, _)
BatchStart(b, items, c, k) ==
    IF k > Len(items) THEN b
    ELSE LET item == items[k]
             message == ParseError(item.content)
             key == CacheKey(item.content.str, b.conversionType)
             done(new) == [b EXCEPT !.updatedItems[k] = new, !.completedItems = @ + 1,
                                    !.touched = TRUE]
         IN  IF IsConverted(item) THEN BatchStart(b, items, c, k + 1)
             ELSE IF message # ""
             THEN BatchStart(done([item EXCEPT !.error = message]), items, c, k + 1)
             ELSE IF PageCacheHas(c, key)
             THEN LET cachedResult == PageCacheGet(c, key)
                  IN  BatchStart(done([item EXCEPT
                                          !.convertedContent = cachedResult.svgContent,
                                          !.fontData = cachedResult.fontData,
                                          !.fontFileName = cachedResult.fontFileName]),
                                 items, c, k + 1)
             ELSE BatchStart([b EXCEPT !.pending = @ \cup {item.id}], items, c, k + 1)

\* the files of a ZIP (or of a plain download): [path, svg, bytes], one per
\* path; an SVG file has no bytes and a font file no svg
ZipFile(zip, path, svg, bytes) ==
    {f \in zip : f.path # path} \cup {[path |-> path, svg |-> svg, bytes |-> bytes]}

\* downloadSvg(svgContent, fontData, fontFileName, index)
DownloadSvg(svgContent, fontData, fontFileName, index) ==
    LET svgFile == ZipFile({}, Path("svg", index + 1), svgContent, <<>>)
    IN  IF fontData = <<>> THEN svgFile
        ELSE ZipFile(svgFile,
                     IF fontFileName # 0 - 1 THEN Path("woff2", fontFileName)
                     ELSE Path("font.woff2", index + 1),
                     NoSvg, fontData)

\* the forEach of downloadAllSvgs from position k (index k - 1)
RECURSIVE ZipAll(_, _, _, _)
ZipAll(convertedItems, k, zip, processedFonts) ==
    IF k > Len(convertedItems) THEN zip
    ELSE LET item == convertedItems[k]
             withSvg == ZipFile(zip, Path("svg", k), item.convertedContent, <<>>)
         IN  IF item.fontData # <<>> /\ item.fontData \notin processedFonts
             THEN ZipAll(convertedItems, k + 1,
                         ZipFile(withSvg,
                                 IF item.fontFileName # 0 - 1
                                 THEN Path("woff2", item.fontFileName)
                                 ELSE Path("font.woff2", k),
                                 NoSvg, item.fontData),
                         processedFonts \cup {item.fontData})
             ELSE ZipAll(convertedItems, k + 1, withSvg, processedFonts)

\* downloadAllSvgs(): the files handed to the browser, none when nothing is
\* converted
DownloadAllSvgs(items) ==
    LET convertedItems == SelectSeq(items, IsConverted)
    IN  IF Len(convertedItems) = 0 THEN {}
        ELSE IF Len(convertedItems) = 1
        THEN DownloadSvg(convertedItems[1].convertedContent, convertedItems[1].fontData,
                         convertedItems[1].fontFileName, 0)
        ELSE ZipAll(convertedItems, 1, {}, {})

\* buttons that can be clicked whatever the page is doing
DisabledNever(converting) == FALSE

\* disabled={isConverting} of the convert button and the reset button
Disabled(converting) == converting

\* the `finally` of convertToVectorSvg once Promise.all has resolved, or the
\* page with the batch still running
Settled(b) ==
    IF b.pending = {}
    THEN [isConverting |-> FALSE, conversionProgress |-> 0, batch |-> NoBatch,
          finished |-> {b.updatedItems[i].id : i \in {j \in 1..Len(b.updatedItems) :
                                                        ~IsConverted(b.items[j])}}]
    ELSE [isConverting |-> TRUE,
          conversionProgress |-> IF b.touched THEN Progress(b.completedItems, b.totalItems)
                                 ELSE 0,
          batch |-> b, finished |-> {}]

\* onDrop: the file has been read and the item is appended
Drop(content) ==
    /\ nDrop < MaxDrops
    /\ nDrop' = nDrop + 1
    /\ svgItems' = Append(svgItems, SvgItem(nDrop + 1, content))
    /\ download' = {}
    /\ UNCHANGED <<gvars, now, v2vars, wvars, svars, wawoff2, pvars, isConverting,
                   conversionType, conversionProgress, conversionCache, batch, finished>>

\* the radio group: setConversionType(value)
SetConversionType(type) ==
    /\ conversionType # type
    /\ conversionType' = type
    /\ download' = {}
    /\ UNCHANGED <<gvars, now, v2vars, wvars, svars, wawoff2, pvars, svgItems, isConverting,
                   conversionProgress, conversionCache, batch, finished, nDrop>>

\* the convert button: convertToVectorSvg() up to the first await of its
\* callbacks, and to its end when no callback has to wait
ConvertClick ==
    /\ ~Disabled(isConverting)
    /\ Len(svgItems) > 0
    /\ IF \A i \in 1..Len(svgItems) : IsConverted(svgItems[i])
       THEN /\ download' = DownloadAllSvgs(svgItems)
            /\ UNCHANGED <<svgItems, isConverting, conversionProgress, batch, finished>>
       ELSE LET itemsToConvert == SelectSeq(svgItems, LAMBDA item : ~IsConverted(item))
                b == BatchStart([conversionType |-> conversionType, items |-> svgItems,
                                 updatedItems |-> svgItems, pending |-> {},
                                 completedItems |-> 0, totalItems |-> Len(itemsToConvert),
                                 touched |-> FALSE],
                                svgItems, conversionCache, 1)
                after == Settled(b)
            IN  /\ svgItems' = IF b.touched THEN b.updatedItems ELSE svgItems
                /\ isConverting' = after.isConverting
                /\ conversionProgress' = after.conversionProgress
                /\ batch' = after.batch
                /\ finished' = finished \cup after.finished
                /\ download' = {}
    /\ UNCHANGED <<gvars, now, v2vars, wvars, svars, wawoff2, pvars, conversionType,
                   conversionCache, nDrop>>

\* the callback of the item with this id, which asked the route of this
\* conversion type for this emoji, gets its reply and runs to its end; the
\* last one lets Promise.all resolve and the batch finish
Settle(id, type, text, reply) ==
    /\ id \in batch.pending
    /\ type = batch.conversionType
    /\ text = batch.items[FindIndex(batch.updatedItems, id)].content.str
    /\ LET index == FindIndex(batch.updatedItems, id)
           item == batch.items[index]
           b == [batch EXCEPT !.updatedItems[index] = ConvertItem(item, reply),
                              !.completedItems = @ + 1,
                              !.pending = @ \ {id},
                              !.touched = TRUE]
           after == Settled(b)
       IN  /\ svgItems' = b.updatedItems
           /\ conversionCache' =
                 IF IsSuccess(reply)
                 THEN PageCacheSet(conversionCache,
                                   CacheKey(item.content.str, batch.conversionType),
                                   [svgContent |-> reply.resp.svgContent,
                                    fontData |-> reply.resp.fontData,
                                    fontFileName |-> reply.resp.fontFileName])
                 ELSE conversionCache
           /\ isConverting' = after.isConverting
           /\ conversionProgress' = after.conversionProgress
           /\ batch' = after.batch
           /\ finished' = finished \cup after.finished
    /\ download' = {}
    /\ UNCHANGED <<gvars, now, v2vars, wvars, svars, wawoff2, pvars, conversionType,
                   nDrop>>

\* the reset button: resetConversion()
ResetClick ==
    /\ ~Disabled(isConverting)
    /\ \E i \in 1..Len(svgItems) : IsConverted(svgItems[i]) \/ HasError(svgItems[i])
    /\ svgItems' = [i \in 1..Len(svgItems) |->
                       [svgItems[i] EXCEPT !.convertedContent = NoSvg, !.error = ""]]
    /\ conversionCache' = {}
    /\ finished' = {}
    /\ download' = {}
    /\ UNCHANGED <<gvars, now, v2vars, wvars, svars, wawoff2, pvars, isConverting,
                   conversionType, conversionProgress, batch, nDrop>>

\* the Download All button: downloadAllSvgs()
DownloadAllClick ==
    /\ \E i \in 1..Len(svgItems) : IsConverted(svgItems[i])
    /\ download' = DownloadAllSvgs(svgItems)
    /\ UNCHANGED <<gvars, now, v2vars, wvars, svars, wawoff2, pvars, svgItems, isConverting,
                   conversionType, conversionProgress, conversionCache, batch, finished,
                   nDrop>>

InitPage ==
    /\ GlyphIdle
    /\ RoutesIdle
    /\ wawoff2 = "sound"
    /\ PngIdle
    /\ PageIdle

NextPage ==
    \/ \E content \in Contents : Drop(content)
    \/ \E type \in {"foreignObject", "png"} : SetConversionType(type)
    \/ ConvertClick
    \/ \E id \in 1..MaxDrops, type \in {"foreignObject", "png"} :
          \E reply \in RepliesFor(type, <<9786>>) : Settle(id, type, <<9786>>, reply)
    \/ ResetClick
    \/ DownloadAllClick

SpecPage == InitPage /\ [][NextPage]_vars

\* the page with the conversion type left as it is when the page loads:
\* uploads, batches and resets
NextBatch ==
    \/ \E content \in Contents : Drop(content)
    \/ ConvertClick
    \/ \E id \in 1..MaxDrops, reply \in RepliesFor("png", <<9786>>) :
          Settle(id, "png", <<9786>>, reply)
    \/ ResetClick

SpecBatch == InitPage /\ [][NextBatch]_vars

---------------------------------------------------------------------------
(* Claims about getGlyphIdsForEmoji *)

Resolved == gVariant # "none"

NoSurrogates(cps) == \A k \in 1..Len(cps) : ~IsHigh(cps[k]) /\ ~IsLow(cps[k])

\* C7: for every well-formed input string (U+0000 included) the codePoints
\* list is exactly the string's scalar values in source order: it holds no
\* surrogate and its UTF-16 encoding is the input string again.
C7_CodePointsAreScalarValues ==
    (Resolved /\ WellFormed(gEmoji)) =>
        /\ NoSurrogates(gResult.codePoints)
        /\ FromCodePoint(gResult.codePoints) = gEmoji

\* C8: a non-empty string with an unpaired surrogate is rejected before any
\* glyph lookup: glyphForCodePoint and layout are never called for it and
\* no glyph is resolved.
C8_UnpairedSurrogateRejected ==
    (Resolved /\ gEmoji # <<>> /\ ~WellFormed(gEmoji)) =>
        /\ gResult.looked = <<>>
        /\ ~gResult.layoutCalled
        /\ gResult.glyphIds = <<>>

GlyphOf(font, cp) == GlyphForCodePoint(font, cp).id

Range(list) == {list[k] : k \in 1..Len(list)}

\* the glyphs font.layout gives for the string of these code points
Shaped(font, cps) == Layout(font, FromCodePoint(cps)).glyphs

RECURSIVE FirstOccurrences(_)
FirstOccurrences(list) ==
    IF list = <<>> THEN <<>>
    ELSE LET front == SubSeq(list, 1, Len(list) - 1)
             last == list[Len(list)]
         IN  IF last \in Range(front) THEN FirstOccurrences(front)
             ELSE Append(FirstOccurrences(front), last)

\* the glyphs of the code points that have one, in code-point order
DirectGlyphs(font, cps) ==
    LET Mapped(cp) == HasGlyph(font, cp)
        mapped == SelectSeq(cps, Mapped)
    IN  [k \in 1..Len(mapped) |-> GlyphOf(font, mapped[k])]

\* C12: glyphIds never holds a glyph ID twice and is a function of the font
\* and the code points alone: the direct hits in code-point order of first
\* occurrence, then the glyphs of the shaping run that are not yet in the
\* list, in run order.
C12_NoDuplicatesStableOrder ==
    Resolved =>
        LET cps == gResult.codePoints
            ids == gResult.glyphIds
            shaped == IF Len(cps) > 1 THEN Shaped(gFont, cps) ELSE <<>>
        IN  /\ \A i, j \in 1..Len(ids) : (i # j) => ids[i] # ids[j]
            /\ ids = FirstOccurrences(DirectGlyphs(gFont, cps) \o shaped)

\* a sequence whose shaping run repeats a glyph of the direct lookups and
\* brings a new one
C12_Witness ==
    /\ Resolved
    /\ gResult.directIds # <<>>
    /\ Len(gResult.glyphIds) > Len(gResult.directIds)
    /\ \E k \in 1..Len(gResult.layoutGlyphs) :
           gResult.layoutGlyphs[k] \in Range(gResult.directIds)

---------------------------------------------------------------------------
(* Claims about the v2 route *)

IsFont(slot) == slot.pc = "answered" /\ slot.resp.fontProcessed

\* C1: single-flight: requests for the same emoji that overlap in time run
\* the subsetting pipeline once, so no two requests are building the same
\* emoji at the same time.
C1_SingleFlight ==
    \A r, q \in DOMAIN reqs :
        (r # q /\ reqs[r].pc = "building" /\ reqs[q].pc = "building") =>
            reqs[r].emoji # reqs[q].emoji

\* two successful answers to requests that were in flight together and
\* asked for the same emoji with the same width and height
Simultaneous(r, q) ==
    /\ r # q
    /\ \E p \in overlap : r \in p /\ q \in p
    /\ IsFont(reqs[r]) /\ IsFont(reqs[q])
    /\ reqs[r].resp.svgContent.emoji = reqs[q].resp.svgContent.emoji
    /\ reqs[r].resp.svgContent.width = reqs[q].resp.svgContent.width
    /\ reqs[r].resp.svgContent.height = reqs[q].resp.svgContent.height

Received(r) == nReq' = nReq + 1 /\ reqs'[r] # reqs[r]

EntryOf(c, k) == c[IndexOfKey(c, k)]

\* C3: once font data is stored for an emoji, it stays in the cache until
\* its age passes the lifetime or a store into the full cache evicts it, and
\* every request for the emoji received while it is there and not older than
\* the lifetime is answered at once with cacheHit = true and that font data,
\* without a build.
C3_HitUntilEvictedOrExpired ==
    [][/\ \A i \in 1..Len(cache) :
             IF HasKey(cache', cache[i].key)
             THEN EntryOf(cache', cache[i].key).value = cache[i].value
             ELSE \/ now - cache[i].start > CACHE_TTL
                  \/ Len(cache) = CACHE_MAX /\ Keys(cache') \ Keys(cache) # {}
       /\ \A r \in DOMAIN reqs :
             (/\ Received(r)
              /\ reqs'[r].emoji.kind = "string"
              /\ HasKey(cache, reqs'[r].emoji.str)
              /\ now - EntryOf(cache, reqs'[r].emoji.str).start <= CACHE_TTL)
             => /\ reqs'[r].pc = "answered"
                /\ reqs'[r].resp.fontProcessed
                /\ reqs'[r].resp.cacheHit = "hit"
                /\ reqs'[r].resp.fontData = EntryOf(cache, reqs'[r].emoji.str).value
    ]_vars

\* a request answered from the cache a whole lifetime after the store
C3_Witness ==
    \E r \in DOMAIN reqs :
        /\ IsFont(reqs[r])
        /\ reqs[r].resp.cacheHit = "hit"
        /\ HasKey(cache, reqs[r].emoji.str)
        /\ reqs[r].resp.fontData = EntryOf(cache, reqs[r].emoji.str).value
        /\ reqs[r].resp.fontFileName - EntryOf(cache, reqs[r].emoji.str).start = CACHE_TTL

\* the cached key whose last request (hit or store) is the oldest
LeastRecent(order, c) ==
    LET Cached(k) == k \in Keys(c)
        kept == SelectSeq(order, Cached)
    IN  kept[Len(kept)]

\* C4: the cache never holds more than 5 entries, and the store of a new key
\* into a full cache removes exactly one entry, the one whose most recent
\* request (hit or store) is the oldest.
C4_BoundedLeastRecentlyUsedEvicted ==
    [][/\ Len(cache) <= CACHE_MAX
       /\ Len(cache') <= CACHE_MAX
       /\ \A k \in Keys(cache') \ Keys(cache) :
             (Len(cache) = CACHE_MAX) =>
                 Keys(cache') = (Keys(cache) \ {LeastRecent(recent, cache)}) \cup {k}
    ]_vars

\* an eviction after a hit: the first key stored was requested again when
\* the cache was full, so the store of a sixth key removed another key
C4_Witness ==
    /\ now = 0
    /\ Len(cache) = CACHE_MAX
    /\ Len(recent) = CACHE_MAX + 1
    /\ LruEmojis[1] \in Keys(cache)
    /\ LruEmojis[2] \notin Keys(cache)
    /\ recent[Len(recent)] = LruEmojis[2]
    /\ recent[1] = LruEmojis[6]

\* C5: no entry is served when it is older than 6 hours: a request is
\* answered from the cache only while the entry's age is within the
\* lifetime, a request does not restart the age of any entry, and a request
\* for a key whose entry is older than the lifetime starts a build.
C5_ExpiryIndependentOfAccess ==
    [][\A r \in DOMAIN reqs :
          Received(r) =>
              /\ (reqs'[r].pc = "answered" /\ reqs'[r].resp.cacheHit = "hit") =>
                     /\ HasKey(cache, reqs'[r].emoji.str)
                     /\ now - EntryOf(cache, reqs'[r].emoji.str).start <= CACHE_TTL
              /\ \A i \in 1..Len(cache) :
                     HasKey(cache', cache[i].key) =>
                         EntryOf(cache', cache[i].key).start = cache[i].start
              /\ (/\ reqs'[r].emoji.kind = "string"
                  /\ HasKey(cache, reqs'[r].emoji.str)
                  /\ now - EntryOf(cache, reqs'[r].emoji.str).start > CACHE_TTL)
                 => /\ reqs'[r].pc = "building"
                    /\ ~HasKey(cache', reqs'[r].emoji.str)
    ]_vars

\* a key served from the cache at the age of exactly 6 hours, and rebuilt by
\* the request that came a millisecond later
C5_Witness ==
    \E r, q \in DOMAIN reqs :
        /\ now = CACHE_TTL + 1
        /\ IsFont(reqs[q])
        /\ reqs[q].resp.cacheHit = "hit"
        /\ reqs[q].resp.fontFileName = CACHE_TTL
        /\ reqs[r].pc = "building"
        /\ reqs[r].emoji = reqs[q].emoji
        /\ ~HasKey(cache, reqs[r].emoji.str)

\* C9: a request without a usable emoji (absent, null or empty) is answered
\* with status 400 and "Emoji is required", and starts no build.
C9_EmojiRequired ==
    \A r \in DOMAIN reqs :
        (reqs[r].pc # "idle" /\ ~Truthy(reqs[r].emoji)) =>
            /\ reqs[r].pc = "answered"
            /\ reqs[r].resp.status = 400
            /\ reqs[r].resp.error = "Emoji is required"

\* the code points of a string in U+XXXX notation
Notation(str) ==
    LET cps == WorkerCodePointsFrom(str, 1, <<>>)
    IN  [k \in 1..Len(cps) |-> UPlus(cps[k])]

\* C17: every response with fontProcessed = true carries non-empty font
\* data and a diagnostic record with the length of the data, the emoji's
\* code points in U+XXXX notation and the processing duration, for a fresh
\* build and for a cache hit alike.
C17_SuccessCarriesDiagnostics ==
    \A r \in DOMAIN reqs :
        IsFont(reqs[r]) =>
            /\ reqs[r].resp.fontData # <<>>
            /\ reqs[r].resp.fontBase64Length = Len(reqs[r].resp.fontData)
            /\ reqs[r].resp.codePoints = Notation(reqs[r].emoji.str)
            /\ reqs[r].resp.processingTimeMs >= 0

\* the request of slot r, waiting for createEmojiSubset, is answered in
\* this step with the build having failed
BuildFailed(r) ==
    /\ reqs[r].pc = "building"
    /\ reqs'[r].pc = "answered"
    /\ ~reqs'[r].resp.fontProcessed

\* the entries of the cache that a lookup of key k at time t leaves
WithoutExpired(c, k, t) ==
    LET Kept(e) == ~(e.key = k /\ t - e.start > CACHE_TTL)
    IN  SelectSeq(c, Kept)

C19_HitRendersOwnDimensions ==
    [][\A r \in DOMAIN reqs :
          (/\ Received(r)
           /\ reqs'[r].pc = "answered"
           /\ reqs'[r].resp.cacheHit = "hit"
           /\ reqs'[r].resp.fontProcessed)
          => /\ reqs'[r].resp.fontData = EntryOf(cache, reqs'[r].emoji.str).value
             /\ reqs'[r].resp.svgContent.kind = "font"
             /\ reqs'[r].resp.svgContent.emoji = reqs'[r].emoji.str
             /\ reqs'[r].resp.svgContent.width = reqs'[r].width
             /\ reqs'[r].resp.svgContent.height = reqs'[r].height
    ]_vars

\* a request built the font for one size, and a request for the same emoji
\* in another size was served the same font data with an SVG of its own size
C19_Witness ==
    \E r, q \in DOMAIN reqs :
        /\ IsFont(reqs[r]) /\ reqs[r].resp.cacheHit = "miss"
        /\ IsFont(reqs[q]) /\ reqs[q].resp.cacheHit = "hit"
        /\ reqs[r].emoji = reqs[q].emoji
        /\ reqs[r].resp.fontData = reqs[q].resp.fontData
        /\ <<reqs[r].width, reqs[r].height>> # <<reqs[q].width, reqs[q].height>>
        /\ reqs[q].resp.svgContent.width = reqs[q].width
        /\ reqs[q].resp.svgContent.height = reqs[q].height
        /\ reqs[q].width # 72

\* C20: a request calls createEmojiSubset at most once: not at all when it
\* is served from the cache, once when it misses, and when the build fails
\* the request is answered with the fallback in the same step, without
\* another call.
C20_PipelineStartedAtMostOnce ==
    [][\A r \in DOMAIN reqs :
          /\ reqs'[r].started <= 1
          /\ (reqs'[r].pc = "answered" /\ reqs'[r].resp.cacheHit = "hit") =>
                reqs'[r].started = 0
          /\ (reqs'[r].pc = "building") => reqs'[r].started = 1
          /\ (reqs[r].pc = "building" /\ reqs'[r] # reqs[r]) =>
                /\ reqs'[r].pc = "answered"
                /\ reqs'[r].started = 1
                /\ (~reqs'[r].resp.fontProcessed) =>
                       reqs'[r].resp.svgContent.kind = "simple"
    ]_vars

\* both slots answered after one call each: one build failed and got the
\* fallback, the other succeeded
C20_Witness ==
    \E r, q \in DOMAIN reqs :
        /\ reqs[r].pc = "answered" /\ reqs[r].started = 1
        /\ ~reqs[r].resp.fontProcessed
        /\ reqs[r].resp.svgContent.kind = "simple"
        /\ reqs[q].pc = "answered" /\ reqs[q].started = 1
        /\ reqs[q].resp.fontProcessed

---------------------------------------------------------------------------
(* Claims about the worker route *)

\* C6: the result cache of the worker route is bounded and time-limited: it
\* never holds more entries than the bounded cache of the v2 route, and no
\* request is served an entry older than the cache lifetime.
C6_WorkerCacheBoundedAndTimeLimited ==
    /\ Cardinality(wcache) <= CACHE_MAX
    /\ \A r \in DOMAIN wreqs :
           (wreqs[r].pc = "answered" /\ wreqs[r].resp.cacheHit = "hit") =>
               wreqs[r].resp.age <= CACHE_TTL

---------------------------------------------------------------------------
(* Claims about createEmojiSubset *)

Called(run) == run.pc # "idle"

\* C13: when neither lookup yields a glyph, the pipeline fails with
\* NoGlyphsResolved: the subsetting and WOFF2 steps are not run and no font
\* data is returned.
C13_NoGlyphsResolvedIsFatal ==
    \A r \in DOMAIN runs :
        (/\ Called(runs[r])
         /\ runs[r].error # "Font file not found"
         /\ GetGlyphIdsForEmoji("v2", gFont, runs[r].emoji).glyphIds = <<>>)
        => /\ runs[r].pc = "thrown"
           /\ runs[r].error = "NoGlyphsResolved"
           /\ "optimize" \notin Range(runs[r].steps)
           /\ "compress" \notin Range(runs[r].steps)
           /\ runs[r].result = <<>>

\* C14: the glyph list given to the subsetter holds every directly resolved
\* glyph and is closed under component references: no glyph of the list has
\* a component outside the list.
C14_SubsetClosedUnderComponents ==
    \A r \in DOMAIN runs :
        ("optimize" \in Range(runs[r].steps) /\ runs[r].subset # <<>>) =>
            /\ Range(runs[r].directIds) \subseteq Range(runs[r].subset)
            /\ \A c \in gFont.components :
                   (c[1] \in Range(runs[r].subset)) => c[2] \in Range(runs[r].subset)

C15_WorkersDoNotInterfere ==
    /\ \A r \in DOMAIN wreqs :
           (/\ wreqs[r].pc = "answered"
            /\ wreqs[r].resp.fontProcessed
            /\ wreqs[r].resp.cacheHit = "miss")
           => wreqs[r].resp.svgContent.fontBase64 = ProcessEmoji(wreqs[r].emoji.str)
    /\ \A e \in wcache : e.value = ProcessEmoji(e.key)

---------------------------------------------------------------------------
(* Claims about the asset the routes hand out *)

\* the signature check of runWorkerScript, on the bytes of an asset
IsWoff2(bytes) == Len(bytes) >= 4 /\ SubSeq(bytes, 1, 4) = <<119, 79, 70, 50>>

\* what the worker route caches and returns as a success is a WOFF2 file
WorkerRouteAssetsAreWoff2 ==
    /\ \A e \in wcache : IsWoff2(e.value)
    /\ \A r \in DOMAIN wreqs :
          wreqs[r].resp.fontProcessed => IsWoff2(wreqs[r].resp.svgContent.fontBase64)

C24_WorkerHandOff ==
    [][\A r \in DOMAIN wreqs :
          (wreqs[r].pc \in {"working", "written"} /\ wreqs'[r].pc = "answered") =>
              LET code == wreqs'[r].code
                  there == Exists(temp, Path("woff2", wreqs[r].outputPath))
                  resolved == wreqs'[r].resp.fontProcessed
              IN  /\ code \in {0, 1}
                  /\ (code = 0) => (wreqs[r].pc = "written" /\ there)
                  /\ resolved => (code = 0 /\ there)
                  /\ (code # 0 \/ ~there) =>
                        /\ ~resolved
                        /\ wreqs'[r].resp.fontSubsetError # ""
                        /\ wcache' = wcache]_vars

\* one worker closed with 0 and its request got the font, another closed
\* with 1 after it had written its file and its request got the fallback
C24_Witness ==
    \E r, q \in DOMAIN wreqs :
        /\ wreqs[r].code = 0 /\ wreqs[r].resp.fontProcessed
        /\ wreqs[q].code = 1 /\ ~wreqs[q].resp.fontProcessed
        /\ Exists(temp, Path("woff2", 0))

---------------------------------------------------------------------------
(* Claims about the diagnostics *)

\* C22: the code-point list debugEmoji reports for a string names exactly
\* the code points getGlyphIdsForEmoji of the v2 route decoded from it for
\* the lookups, in the same order and of the same length, whatever the
\* string holds (U+0000 and unpaired surrogates included).
C22_DiagnosticsNameResolverCodePoints ==
    (gPc = "done" /\ gVariant = "v2") =>
        DebugEmoji(Str(gEmoji)).codePoints =
            [k \in 1..Len(gResult.codePoints) |-> UPlus(gResult.codePoints[k])]

\* C25: in the v2 route every value in the result cache is a non-empty
\* string and no request is answered from the `!hasFontSubset` branch:
\* every answer with status 200 either has fontProcessed = true with
\* non-empty font data, or is the fallback of the build's catch block (a
\* cache miss whose debug record carries fontSubsetError).
C25_EmptyFontFallbackUnreachable ==
    /\ \A i \in 1..Len(cache) : cache[i].value # <<>>
    /\ \A r \in DOMAIN reqs :
          (reqs[r].pc = "answered" /\ reqs[r].resp.status = 200) =>
              \/ reqs[r].resp.fontProcessed /\ reqs[r].resp.fontData # <<>>
              \/ /\ ~reqs[r].resp.fontProcessed
                 /\ reqs[r].resp.cacheHit = "miss"
                 /\ reqs[r].resp.fontSubsetError # ""

\* one request served from the cache (both reads of the entry done) and one
\* answered by the catch block, the cache holding an entry
C25_Witness ==
    /\ cache # <<>>
    /\ \E r, q \in DOMAIN reqs :
          /\ reqs[r].resp.cacheHit = "hit" /\ reqs[r].resp.fontProcessed
          /\ reqs[q].resp.status = 200 /\ reqs[q].resp.fontSubsetError # ""

---------------------------------------------------------------------------
(* Claims about the PNG route *)

\* C29: for every call of createEmojiPng in which the browser was launched,
\* browser.close() has been called once and awaited by the time the call
\* returns or throws, whichever of the later steps (new page, set content,
\* set viewport, screenshot, encoding) failed, and the browser is closed
\* unless browser.close() itself threw; a browser is open only while its
\* call is running.
C29_BrowserClosedBeforeSettling ==
    \A r \in DOMAIN png :
        (png[r].pc \in {"returned", "thrown"} /\ png[r].browser # "none") =>
            /\ png[r].closes = 1
            /\ png[r].browser = "closed" \/ png[r].failed = "close"

\* one call threw after its screenshot could not be encoded, another after
\* its page could not be created: both browsers are closed
C29_Witness ==
    \E r, q \in DOMAIN png :
        /\ png[r].pc = "thrown" /\ png[r].failed = "encode" /\ png[r].browser = "closed"
        /\ png[q].pc = "thrown" /\ png[q].failed = "newPage" /\ png[q].browser = "closed"

---------------------------------------------------------------------------
(* Claims about the client page *)

\* C23: in a batch download every SVG file of the ZIP that refers to a font
\* file by name (an SVG made by createSvgWithFont) has a file of that name
\* in the same ZIP, whatever the converted items are, items with the same
\* fontData under different fontFileName values included.
C23_ZipHoldsEveryReferencedFont ==
    \A f \in download :
        f.svg.kind = "font" =>
            \E g \in download : g.path = Path("woff2", f.svg.fontFileName)

\* C26: every conversion batch ends with isConverting = false and
\* conversionProgress = 0 whatever its items got (cache hits, server errors,
\* malformed responses, thrown exceptions), and while a batch is running no
\* second batch is started (the closure of the running batch stays, its
\* pending callbacks only get fewer) and no reset happens (no item loses
\* its result or its error, the cache is not emptied).
C26_BatchEndsAndButtonsLocked ==
    [][/\ isConverting =>
             /\ isConverting' =>
                   /\ batch'.items = batch.items
                   /\ batch'.pending \subseteq batch.pending
                   /\ batch'.completedItems >= batch.completedItems
             /\ ~isConverting' => Cardinality(batch.pending) = 1
             /\ \A i \in 1..Len(svgItems) :
                   (i <= Len(svgItems') /\ svgItems'[i].id = svgItems[i].id) =>
                       /\ IsConverted(svgItems[i]) => IsConverted(svgItems'[i])
                       /\ HasError(svgItems[i]) => HasError(svgItems'[i])
             /\ conversionCache # {} => conversionCache' # {}
       /\ ~isConverting' => (conversionProgress' = 0 /\ batch' = NoBatch)
       /\ isConverting' => batch'.pending # {}]_vars

\* a batch of two items has ended, one item converted and one with the
\* error of a malformed response
C26_Witness ==
    /\ ~isConverting
    /\ conversionProgress = 0
    /\ finished = {1, 2}
    /\ \E i, j \in 1..Len(svgItems) :
          /\ IsConverted(svgItems[i])
          /\ svgItems[j].error = "Invalid response format from server"

\* C27: an uploaded item is never lost by a running conversion: once no
\* batch is running, every item onDrop has added is in svgItems.
C27_UploadedItemsSurviveBatches ==
    ~isConverting => \A id \in 1..nDrop : FindIndex(svgItems, id) # 0

\* C28: once no batch is running, every item that took part in a batch
\* finished since the last reset has exactly one outcome: convertedContent
\* is set or error is set, not both and not neither.
C28_ExactlyOneOutcome ==
    ~isConverting =>
        \A i \in 1..Len(svgItems) :
            svgItems[i].id \in finished =>
                IsConverted(svgItems[i]) # HasError(svgItems[i])
=============================================================================
